---- MODULE Spec2Model ----
(***************************************************************************)
(* The three scraping scripts of the repository as one state machine.      *)
(*                                                                         *)
(*   investopedia  src/scrappers/investopedia_scrapper.py                  *)
(*   fed2010       src/scrappers/fed_scrapper_until2010.py                 *)
(*   fed2024       src/scrappers/fed_scrapper_until2024.py                 *)
(*                                                                         *)
(* A behaviour is one run of one script (prog, chosen in Init).  A         *)
(* category is a main link (investopedia) or a year (the two speech        *)
(* scripts).  The remote site is the environment: every fetch draws its    *)
(* response when it completes.                                             *)
(***************************************************************************)
EXTENDS Integers, Sequences, FiniteSets, TLC

\* ------------------------------------------------------------------ bounds
\* Categories of a run: the main links the root page lists (investopedia),
\* the years of the run (15 and 13 in the speech scripts).
MaxCats == 3
\* Detail links one category page lists.
MaxLinks == 3
\* Responses of a run that are anything but a 2xx page of the expected shape.
MaxFaults == 1
\* chunk_size: 50 in the source (investopedia_scrapper.py:255), scaled.
chunk_size == 2
\* num_threads: 6 in the source (investopedia_scrapper.py:338), scaled.
num_threads == 2
\* max_workers of ProcessPoolExecutor(): the machine's processor count.
max_workers == 2

Cats == 1..MaxCats

Min(a, b) == IF a < b THEN a ELSE b

\* ------------------------------------------------------------ the remote site
\* A response: a 2xx page ("ok"), a non-2xx page ("status"), or a transport
\* fault raised by the HTTP client ("exc": connection failure, timeout).
\* title/container/speaker: whether the page holds the <title> tag, the
\* container the script looks up (callout div, article div, link list) and
\* the speaker match.  links: the links an index page lists.
Resp(k, t, c, s, n) ==
    [kind |-> k, title |-> t, container |-> c, speaker |-> s, links |-> n]

NoResp == Resp("none", FALSE, FALSE, FALSE, 0)
OkResp == Resp("ok", TRUE, TRUE, TRUE, 0)
ErrorPage == Resp("status", TRUE, FALSE, FALSE, 0)
Transport == Resp("exc", FALSE, FALSE, FALSE, 0)

NoTitle == Resp("ok", FALSE, TRUE, TRUE, 0)
NoContainer == Resp("ok", TRUE, FALSE, TRUE, 0)
NoSpeaker == Resp("ok", TRUE, TRUE, FALSE, 0)

\* The responses a detail page may give, by the parts of a page the script
\* looks at.
DetailResponses(p) ==
    {OkResp, ErrorPage, Transport}
        \cup (IF p = "investopedia" THEN {NoTitle, NoContainer}
              ELSE IF p = "fed2010" THEN {NoTitle, NoSpeaker}
              ELSE {NoContainer, NoSpeaker})

IndexResponses ==
    { Resp("ok", TRUE, TRUE, TRUE, n) : n \in 0..MaxLinks }
        \cup { Resp("ok", TRUE, FALSE, TRUE, 0), ErrorPage, Transport }

\* The hrefs of the root page of investopedia: "term" when they end in
\* with-<term>-<digits>, the shape extract_text looks for, "other" when the
\* site names its pages another way.
Schemes == {"term", "other"}
RootPage(n, s) ==
    [kind |-> "ok", title |-> TRUE, container |-> TRUE, speaker |-> TRUE,
     links |-> n, scheme |-> s]

IsFault(r) ==
    \/ ~(r.kind = "ok" /\ r.title /\ r.container /\ r.speaker)
    \/ ("scheme" \in DOMAIN r /\ r.scheme # "term")

\* ------------------------------------------------------------------- state
VARIABLES
    prog,          \* the script that runs
    pc,            \* main: "start", "run", "done", "crashed", "hung" (it
                   \*   waits in a call that never returns)
    crash,         \* the exception that ended the run, "" while none did
    main_links,    \* investopedia: the main links; speech scripts: the years
    catpc,         \* per category: "idle", "fetching", "pool", "loop",
                   \*   "gather", "done"
    detail_links,  \* per category: its detail links, in discovery order
    item,          \* per category, per detail link: [st, resp, tries]; st is
                   \*   "queued", "inflight", "fetched" (its response is in),
                   \*   "done", or "raised" (an exception left its handler)
    data,          \* per category: data / complete_speech_data / results
    written,       \* per category: the tables its flushes wrote, in order
    errs,          \* per category: error lines printed for its detail links
    index_kind,    \* per category: the kind of response its index page gave,
                   \*   "" while it has given none
    faults,        \* faulty responses drawn so far
    files,         \* per file name: the category whose table the file holds
                   \*   (0: no such file) and the table
    progress_bars  \* investopedia: the tqdm bars of main, one per thread

vars == <<prog, pc, crash, main_links, catpc, detail_links, item, data,
          written, errs, index_kind, faults, files, progress_bars>>

Progs == {"investopedia", "fed2010", "fed2024"}

\* The names of the output files: <term>.csv and "No match found.csv" under
\* data/investopedia, speeches_<year>.csv of the speech scripts.
FileNames ==
    { [name |-> "term", id |-> c] : c \in Cats }
        \cup { [name |-> "No match found", id |-> 0] }
        \cup { [name |-> "speeches", id |-> y] : y \in Cats }
NoFile == [by |-> 0, table |-> <<>>]
\* to_csv: the file is created, or replaced when it exists.
to_csv(f, c, table) == [files EXCEPT ![f] = [by |-> c, table |-> table]]

Init ==
    /\ prog \in Progs
    /\ pc = "start"
    /\ crash = ""
    /\ main_links = <<>>
    /\ catpc = [c \in Cats |-> "idle"]
    /\ detail_links = [c \in Cats |-> <<>>]
    /\ item = [c \in Cats |-> <<>>]
    /\ data = [c \in Cats |-> <<>>]
    /\ written = [c \in Cats |-> <<>>]
    /\ errs = [c \in Cats |-> 0]
    /\ index_kind = [c \in Cats |-> ""]
    /\ faults = 0
    /\ files = [f \in FileNames |-> NoFile]
    /\ progress_bars = <<>>

\* A response may be drawn: the run's budget of faulty responses allows it.
Draw(r) ==
    /\ IsFault(r) => faults < MaxFaults
    /\ faults' = IF IsFault(r) THEN faults + 1 ELSE faults

NewItem == [st |-> "queued", resp |-> NoResp, tries |-> 0]
Items(n) == [i \in 1..n |-> NewItem]
Links(n) == [i \in 1..n |-> i]

Range(q) == { q[i] : i \in DOMAIN q }

\* ============================================================ investopedia
\* fetch_page: the body of whatever response arrives, None on an exception.
\* None is NoResp; "if html" is html # NoResp.
fetch_page(r) == IF r.kind = "exc" THEN NoResp ELSE r

RootResponses ==
    { RootPage(n, s) : n \in 0..MaxCats, s \in Schemes }
        \cup { Resp("ok", TRUE, FALSE, TRUE, 0), ErrorPage, Transport }

\* fetch_main_links on the fetched root page: its hrefs, in page order.
fetch_main_links(html) ==
    IF html # NoResp /\ html.container
    THEN [c \in 1..html.links |-> [scheme |-> html.scheme, id |-> c]]
    ELSE <<>>

\* extract_text: the term of a link that ends in with-<term>-<digits>,
\* "No match found" for any other link (lines 88-93).
extract_text(url) ==
    IF url.scheme = "term" THEN [name |-> "term", id |-> url.id]
    ELSE [name |-> "No match found", id |-> 0]

\* fetch_detail_links on the fetched category page.
fetch_detail_links(html) ==
    IF html # NoResp /\ html.container THEN Links(html.links) ELSE <<>>

\* scrape_title_and_summary on the fetched page of detail link i.  src is the
\* link the row was made for; it is not a column of the table.
scrape_title_and_summary(html, i) ==
    IF html # NoResp /\ html.container
    THEN [src |-> i,
          Title |-> IF html.title THEN "title" ELSE "No Title Found",
          Summary |-> "summary"]
    ELSE [src |-> i, Title |-> "No Title Found",
          Summary |-> "No Summary Found"]

\* chunks = [detail_links[i:i + chunk_size] for i in range(0, len, chunk_size)]
\* NumChunks with the short chunk at the end of the list left out.
NumChunks_floor(links) == Len(links) \div chunk_size
NumChunks(links) == (Len(links) + chunk_size - 1) \div chunk_size
Chunks(links) ==
    [k \in 1..NumChunks(links) |->
        SubSeq(links, (k - 1) * chunk_size + 1,
               Min(k * chunk_size, Len(links)))]

\* process_chunk with the results of the fetches that raised left out.
process_chunk_drop(c, chunk) ==
    LET kept == SelectSeq(chunk, LAMBDA l : item[c][l].resp.kind # "exc") IN
    [j \in 1..Len(kept) |->
        scrape_title_and_summary(fetch_page(item[c][kept[j]].resp), kept[j])]

\* process_chunk with the results in the reverse of the chunk's order.
process_chunk_rev(c, chunk) ==
    [j \in 1..Len(chunk) |->
        scrape_title_and_summary(
            fetch_page(item[c][chunk[Len(chunk) + 1 - j]].resp),
            chunk[Len(chunk) + 1 - j])]

\* process_chunk: gather returns one result per link, in the chunk's order.
process_chunk(c, chunk) ==
    [j \in 1..Len(chunk) |->
        scrape_title_and_summary(fetch_page(item[c][chunk[j]].resp),
                                 chunk[j])]

\* main: links_per_thread, and the thread main gives position c of main_links.
links_per_thread(links) ==
    Len(links) \div num_threads
        + (IF Len(links) % num_threads # 0 THEN 1 ELSE 0)
ThreadOf(c) == (c - 1) \div links_per_thread(main_links)

ChunkSt(c, chunk) == { item[c][i].st : i \in Range(chunk) }
Running(c) ==
    { k \in 1..NumChunks(detail_links[c]) :
        ChunkSt(c, Chunks(detail_links[c])[k])
            \subseteq {"inflight", "fetched"} }

\* The thread's event loop is inside the synchronous part of another
\* handle_main_link: its process pool, as_completed and the table write.
LoopBlocked(c) ==
    \E d \in Cats : d # c /\ ThreadOf(d) = ThreadOf(c) /\ catpc[d] = "pool"

\* main, lines 335-356: fetch the root page, split the main links, start the
\* threads.  range(0, n, 0) raises ValueError when there are no main links.
InvMain(r) ==
    /\ prog = "investopedia" /\ pc = "start"
    /\ Draw(r)
    /\ LET links == fetch_main_links(fetch_page(r)) IN
        /\ main_links' = links
        /\ progress_bars' = [t \in 1..num_threads |->
                                [n |-> 0, total |-> links_per_thread(links)]]
        /\ IF links_per_thread(links) = 0
           THEN /\ pc' = "crashed"
                /\ crash' = "ValueError"
                /\ UNCHANGED catpc
           ELSE /\ pc' = "run"
                /\ crash' = crash
                /\ catpc' = [c \in Cats |->
                                IF c <= Len(links) THEN "fetching" ELSE "idle"]
    /\ UNCHANGED <<files, prog, detail_links, item, data, written, errs,
                   index_kind>>

\* handle_main_link, lines 252-265: the category page arrives; its links are
\* cut into chunks and every chunk is submitted to a new process pool.
InvFetchDetailLinks(c, r) ==
    /\ prog = "investopedia" /\ pc = "run"
    /\ catpc[c] = "fetching"
    /\ ~LoopBlocked(c)
    /\ Draw(r)
    /\ LET links == fetch_detail_links(fetch_page(r)) IN
        /\ detail_links' = [detail_links EXCEPT ![c] = links]
        /\ item' = [item EXCEPT ![c] = Items(Len(links))]
    /\ catpc' = [catpc EXCEPT ![c] = "pool"]
    /\ index_kind' = [index_kind EXCEPT ![c] = r.kind]
    /\ UNCHANGED <<files, progress_bars>>
    /\ UNCHANGED <<prog, pc, crash, main_links, data, written, errs>>

\* Started with a second attempt made for the link.
Started_retry(x) == [x EXCEPT !.st = "inflight", !.tries = x.tries + 2]

Started(x) == [x EXCEPT !.st = "inflight", !.tries = x.tries + 1]

\* A free worker of the pool takes the next submitted chunk; process_chunk
\* starts the fetch of every link of the chunk at once (lines 219-223).
InvChunkStart(c, k) ==
    /\ prog = "investopedia" /\ pc = "run"
    /\ catpc[c] = "pool"
    /\ k \in 1..NumChunks(detail_links[c])
    /\ LET chunks == Chunks(detail_links[c]) IN
        /\ ChunkSt(c, chunks[k]) = {"queued"}
        /\ \A j \in 1..(k - 1) : "queued" \notin ChunkSt(c, chunks[j])
        /\ Cardinality(Running(c)) < max_workers
        /\ item' = [item EXCEPT ![c] =
                       [n \in DOMAIN @ |->
                           IF n \in Range(chunks[k]) THEN Started(@[n])
                           ELSE @[n]]]
    /\ UNCHANGED <<files, progress_bars>>
    /\ UNCHANGED <<prog, pc, crash, main_links, catpc, detail_links, data,
                   written, errs, faults, index_kind>>

\* One fetch of a chunk ends (fetch_page, lines 66-71).
InvFetchDone(c, i, r) ==
    /\ prog = "investopedia" /\ pc = "run"
    /\ catpc[c] = "pool"
    /\ i \in DOMAIN item[c]
    /\ item[c][i].st = "inflight"
    /\ Draw(r)
    /\ item' = [item EXCEPT ![c][i] = [@ EXCEPT !.st = "fetched", !.resp = r]]
    /\ errs' = [errs EXCEPT ![c] = IF r.kind = "exc" THEN @ + 1 ELSE @]
    /\ UNCHANGED <<files, progress_bars>>
    /\ UNCHANGED <<prog, pc, crash, main_links, catpc, detail_links, data,
                   written, index_kind>>

Delivered(x) == [x EXCEPT !.st = "done", !.resp = NoResp]

\* InvDeliver with the results handed over as they come: the rows of the
\* links of the chunk whose fetch has ended, while others are in flight.
InvDeliver_partial(c, k) ==
    /\ prog = "investopedia" /\ pc = "run"
    /\ catpc[c] = "pool"
    /\ k \in 1..NumChunks(detail_links[c])
    /\ LET chunk == Chunks(detail_links[c])[k]
           ready == SelectSeq(chunk, LAMBDA l : item[c][l].st = "fetched")
       IN
        /\ ready # <<>>
        /\ data' = [data EXCEPT ![c] = @ \o process_chunk(c, ready)]
        /\ item' = [item EXCEPT ![c] =
                       [n \in DOMAIN @ |->
                           IF n \in Range(ready) THEN Delivered(@[n])
                           ELSE @[n]]]
    /\ UNCHANGED <<files, progress_bars>>
    /\ UNCHANGED <<prog, pc, crash, main_links, catpc, detail_links, written,
                   errs, faults, index_kind>>

\* process_chunk returns (lines 225-227): the worker is free, the chunk's
\* future completes, as_completed yields it and its results are appended to
\* data (lines 266-267).
InvDeliver(c, k) ==
    /\ prog = "investopedia" /\ pc = "run"
    /\ catpc[c] = "pool"
    /\ k \in 1..NumChunks(detail_links[c])
    /\ LET chunk == Chunks(detail_links[c])[k] IN
        /\ ChunkSt(c, chunk) = {"fetched"}
        /\ data' = [data EXCEPT ![c] = @ \o process_chunk(c, chunk)]
        /\ item' = [item EXCEPT ![c] =
                       [n \in DOMAIN @ |->
                           IF n \in Range(chunk) THEN Delivered(@[n])
                           ELSE @[n]]]
    /\ UNCHANGED <<files, progress_bars>>
    /\ UNCHANGED <<prog, pc, crash, main_links, catpc, detail_links, written,
                   errs, faults, index_kind>>

InvTable(rows) == [header |-> <<"Title", "Summary">>, rows |-> rows]

\* InvSave as soon as data holds a row, whatever is still to come.
InvSave_early(c) ==
    /\ prog = "investopedia" /\ pc = "run"
    /\ catpc[c] = "pool"
    /\ data[c] # <<>>
    /\ written' = [written EXCEPT ![c] = Append(@, InvTable(data[c]))]
    /\ files' = to_csv(extract_text(main_links[c]), c, InvTable(data[c]))
    /\ catpc' = [catpc EXCEPT ![c] = "done"]
    /\ UNCHANGED progress_bars
    /\ UNCHANGED <<prog, pc, crash, main_links, detail_links, item, data,
                   errs, faults, index_kind>>

\* Every future has been consumed: the table is written if data is not empty
\* (lines 269-273).
InvSave(c) ==
    /\ prog = "investopedia" /\ pc = "run"
    /\ catpc[c] = "pool"
    /\ \A i \in DOMAIN item[c] : item[c][i].st = "done"
    /\ written' = [written EXCEPT ![c] =
                      IF data[c] # <<>> THEN Append(@, InvTable(data[c]))
                      ELSE @]
    /\ files' = IF data[c] # <<>>
                THEN to_csv(extract_text(main_links[c]), c, InvTable(data[c]))
                ELSE files
    /\ catpc' = [catpc EXCEPT ![c] = "done"]
    /\ UNCHANGED progress_bars
    /\ UNCHANGED <<prog, pc, crash, main_links, detail_links, item, data,
                   errs, faults, index_kind>>

\* main, lines 358-362: every thread has been joined.
InvJoin ==
    /\ prog = "investopedia" /\ pc = "run"
    /\ \A c \in 1..Len(main_links) : catpc[c] = "done"
    /\ pc' = "done"
    /\ UNCHANGED <<files, progress_bars>>
    /\ UNCHANGED <<prog, crash, main_links, catpc, detail_links, item, data,
                   written, errs, faults, index_kind>>

InvNext ==
    \/ \E r \in RootResponses : InvMain(r)
    \/ \E c \in Cats, r \in IndexResponses : InvFetchDetailLinks(c, r)
    \/ \E c \in Cats, k \in 1..MaxLinks : InvChunkStart(c, k)
    \/ \E c \in Cats, i \in 1..MaxLinks, r \in DetailResponses(prog) :
            InvFetchDone(c, i, r)
    \/ \E c \in Cats, k \in 1..MaxLinks : InvDeliver(c, k)
    \/ \E c \in Cats : InvSave(c)
    \/ InvJoin

\* ================================================================= fed2010
F10Header == <<"date", "speaker", "content">>

\* filename = f"speeches_{year}.csv" (line 155; line 70 of
\* fed_scrapper_until2024.py).
speeches_csv(y) == [name |-> "speeches", id |-> y]

\* getYearLinks: requests.get raises on a transport fault, raise_for_status
\* on a non-2xx status; only HTTPError is caught (lines 95-110).
getYearLinks_raises(r) == r.kind = "exc"
getYearLinks(r) ==
    IF r.kind = "ok" /\ r.container THEN Links(r.links) ELSE <<>>

\* The body of the loop of scrape_speech_data for link i (lines 123-150):
\* the exception that leaves it, "" when none does.
scrape_raises(r) ==
    IF r.kind = "exc" THEN "ConnectionError"
    ELSE IF r.kind = "ok" /\ ~r.title THEN "AttributeError"
    ELSE ""
\* scrape_rows with a placeholder row appended for a link that failed.
scrape_rows_placeholder(r, i) ==
    << [src |-> i, date |-> "date",
        speaker |-> IF r.kind = "ok" /\ r.speaker THEN "speaker"
                    ELSE "Speaker name not found",
        content |-> IF r.kind = "ok" THEN "content" ELSE ""] >>

\* The rows the body appends to complete_speech_data.
scrape_rows(r, i) ==
    IF r.kind = "ok"
    THEN << [src |-> i, date |-> "date",
             speaker |-> IF r.speaker THEN "speaker"
                         ELSE "Speaker name not found",
             content |-> "content"] >>
    ELSE <<>>
\* The error lines the body prints (line 150).
scrape_prints(r) == IF r.kind = "status" THEN 1 ELSE 0

\* save_to_csv: the header and one row per element of data (lines 154-162).
\* The keys are those of data[0], or the same three names when data is empty.
save_to_csv(rows) ==
    [header |-> IF rows # <<>> THEN F10Header ELSE F10Header, rows |-> rows]

\* The year main is at: the first one scrape_speech_data has not finished.
CurrentYear(y) ==
    /\ y \in 1..Len(main_links)
    /\ catpc[y] # "done"
    /\ \A d \in 1..(y - 1) : catpc[d] = "done"

\* __main__, lines 164-166: the years of the run.
F10Main ==
    /\ prog = "fed2010" /\ pc = "start"
    /\ pc' = "run"
    /\ main_links' = Links(MaxCats)
    /\ UNCHANGED <<files, progress_bars>>
    /\ UNCHANGED <<prog, crash, catpc, detail_links, item, data, written,
                   errs, faults, index_kind>>

\* scrape_speech_data, lines 119-121: the year's index page.
F10GetYearLinks(y, r) ==
    /\ prog = "fed2010" /\ pc = "run"
    /\ CurrentYear(y) /\ catpc[y] = "idle"
    /\ Draw(r)
    /\ IF getYearLinks_raises(r)
       THEN /\ pc' = "crashed"
            /\ crash' = "ConnectionError"
            /\ catpc' = [catpc EXCEPT ![y] = "raised"]
            /\ UNCHANGED <<detail_links, item>>
       ELSE /\ detail_links' = [detail_links EXCEPT ![y] = getYearLinks(r)]
            /\ item' = [item EXCEPT ![y] = Items(Len(getYearLinks(r)))]
            /\ catpc' = [catpc EXCEPT ![y] = "loop"]
            /\ UNCHANGED <<pc, crash>>
    /\ index_kind' = [index_kind EXCEPT ![y] = r.kind]
    /\ UNCHANGED <<files, progress_bars>>
    /\ UNCHANGED <<prog, main_links, data, written, errs>>

Scraped(x) == [x EXCEPT !.st = "done", !.tries = x.tries + 1]
Raised(x) == [x EXCEPT !.st = "raised", !.tries = x.tries + 1]

\* One turn of the loop over the year's links, lines 122-150.
F10Scrape(y, r) ==
    /\ prog = "fed2010" /\ pc = "run"
    /\ CurrentYear(y) /\ catpc[y] = "loop"
    /\ \E i \in DOMAIN item[y] :
        /\ item[y][i].st = "queued"
        /\ \A j \in 1..(i - 1) : item[y][j].st = "done"
        /\ Draw(r)
        /\ IF scrape_raises(r) # ""
           THEN /\ item' = [item EXCEPT ![y][i] = Raised(@)]
                /\ pc' = "crashed"
                /\ crash' = scrape_raises(r)
                /\ catpc' = [catpc EXCEPT ![y] = "raised"]
                /\ UNCHANGED <<data, errs>>
           ELSE /\ item' = [item EXCEPT ![y][i] = Scraped(@)]
                /\ data' = [data EXCEPT ![y] = @ \o scrape_rows(r, i)]
                /\ errs' = [errs EXCEPT ![y] = @ + scrape_prints(r)]
                /\ UNCHANGED <<pc, crash, catpc>>
    /\ UNCHANGED <<files, progress_bars>>
    /\ UNCHANGED <<prog, main_links, detail_links, written, index_kind>>

\* requests.get is called without a timeout (lines 96, 125): when the server
\* never answers, the call never returns and main waits in it for ever.  The
\* aiohttp requests of the other two scripts end by the client's default
\* total timeout, a transport fault.
F10Hang(y) ==
    /\ prog = "fed2010" /\ pc = "run"
    /\ CurrentYear(y)
    /\ faults < MaxFaults
    /\ faults' = faults + 1
    /\ pc' = "hung"
    /\ \/ /\ catpc[y] = "idle"
          /\ catpc' = [catpc EXCEPT ![y] = "fetching"]
          /\ UNCHANGED item
       \/ /\ catpc[y] = "loop"
          /\ \E i \in DOMAIN item[y] :
                /\ item[y][i].st = "queued"
                /\ \A j \in 1..(i - 1) : item[y][j].st = "done"
                /\ item' = [item EXCEPT ![y][i] = Started(@)]
          /\ UNCHANGED catpc
    /\ UNCHANGED <<files, progress_bars>>
    /\ UNCHANGED <<prog, crash, main_links, detail_links, data, written, errs,
                   index_kind>>

\* The loop has ended: save_to_csv (line 152).
F10Save(y) ==
    /\ prog = "fed2010" /\ pc = "run"
    /\ CurrentYear(y) /\ catpc[y] = "loop"
    /\ \A i \in DOMAIN item[y] : item[y][i].st = "done"
    /\ written' = [written EXCEPT ![y] = Append(@, save_to_csv(data[y]))]
    /\ files' = to_csv(speeches_csv(y), y, save_to_csv(data[y]))
    /\ catpc' = [catpc EXCEPT ![y] = "done"]
    /\ UNCHANGED progress_bars
    /\ UNCHANGED <<prog, pc, crash, main_links, detail_links, item, data,
                   errs, faults, index_kind>>

\* The loop over the years has ended (line 166).
F10Exit ==
    /\ prog = "fed2010" /\ pc = "run"
    /\ \A y \in 1..Len(main_links) : catpc[y] = "done"
    /\ pc' = "done"
    /\ UNCHANGED <<files, progress_bars>>
    /\ UNCHANGED <<prog, crash, main_links, catpc, detail_links, item, data,
                   written, errs, faults, index_kind>>

F10Next ==
    \/ F10Main
    \/ \E y \in Cats, r \in IndexResponses : F10GetYearLinks(y, r)
    \/ \E y \in Cats, r \in DetailResponses(prog) : F10Scrape(y, r)
    \/ \E y \in Cats : F10Hang(y)
    \/ \E y \in Cats : F10Save(y)
    \/ F10Exit

\* ================================================================= fed2024
\* fetch_page: response.status is a non-zero number, so the test on it always
\* passes and the body of any response is returned (lines 9-15).
fetch_page24(r) == IF r.kind = "exc" THEN NoResp ELSE r

\* fetch_and_parse_speech on the fetched page of link i: a sequence holding
\* the record, empty for None (lines 18-42).
fetch_and_parse_speech(html, i) ==
    IF html # NoResp /\ html.container
    THEN << [src |-> i, date |-> "date",
             speaker |-> IF html.speaker THEN "speaker"
                         ELSE "Speaker not found",
             content |-> "content"] >>
    ELSE <<>>
\* The error lines it and its fetch print (lines 14, 23).
parse_prints(r) ==
    IF r.kind = "exc" \/ ~r.container THEN 1 ELSE 0

\* The links fetch_speeches_for_year finds in the year's page (lines 46-57).
hrefs24(html) ==
    IF html # NoResp /\ html.container THEN Links(html.links) ELSE <<>>

RECURSIVE Concat(_)
Concat(q) == IF q = <<>> THEN <<>> ELSE Head(q) \o Concat(Tail(q))

\* What fetch_speeches_for_year returns to main: the function has no return
\* statement, so None whatever gather gave (lines 59-60).
fetch_speeches_for_year(results) == [none |-> TRUE, list |-> <<>>]

\* pd.DataFrame(speeches).to_csv (lines 69-71).
to_csv24(rows) ==
    [header |-> IF rows # <<>> THEN F10Header ELSE <<>>, rows |-> rows]

\* __main__ and main, lines 63-64: the years of the run.
F24Main ==
    /\ prog = "fed2024" /\ pc = "start"
    /\ pc' = "run"
    /\ main_links' = Links(MaxCats)
    /\ UNCHANGED <<files, progress_bars>>
    /\ UNCHANGED <<prog, crash, catpc, detail_links, item, data, written,
                   errs, faults, index_kind>>

\* fetch_speeches_for_year, lines 45-60: the year's page arrives and every
\* speech of it is started at once.
F24FetchYear(y, r) ==
    /\ prog = "fed2024" /\ pc = "run"
    /\ CurrentYear(y) /\ catpc[y] = "idle"
    /\ Draw(r)
    /\ LET links == hrefs24(fetch_page24(r)) IN
        /\ detail_links' = [detail_links EXCEPT ![y] = links]
        /\ item' = [item EXCEPT ![y] =
                       [i \in 1..Len(links) |-> Started(NewItem)]]
    /\ catpc' = [catpc EXCEPT ![y] = "gather"]
    /\ index_kind' = [index_kind EXCEPT ![y] = r.kind]
    /\ UNCHANGED <<files, progress_bars>>
    /\ UNCHANGED <<prog, pc, crash, main_links, data, written, errs>>

\* One fetch_and_parse_speech ends.
F24SpeechDone(y, i, r) ==
    /\ prog = "fed2024" /\ pc = "run"
    /\ catpc[y] = "gather"
    /\ i \in DOMAIN item[y]
    /\ item[y][i].st = "inflight"
    /\ Draw(r)
    /\ item' = [item EXCEPT ![y][i] = [@ EXCEPT !.st = "fetched", !.resp = r]]
    /\ errs' = [errs EXCEPT ![y] = @ + parse_prints(r)]
    /\ UNCHANGED <<files, progress_bars>>
    /\ UNCHANGED <<prog, pc, crash, main_links, catpc, detail_links, data,
                   written, index_kind>>

\* gather has every result: fetch_speeches_for_year returns and main goes on
\* with what it returned (lines 60, 66-72).  Iterating None raises TypeError.
F24Return(y) ==
    /\ prog = "fed2024" /\ pc = "run"
    /\ catpc[y] = "gather"
    /\ \A i \in DOMAIN item[y] : item[y][i].st = "fetched"
    /\ LET results == [i \in DOMAIN item[y] |->
                          fetch_and_parse_speech(fetch_page24(item[y][i].resp),
                                                 i)]
           speeches == fetch_speeches_for_year(results)
       IN  IF speeches.none
           THEN /\ pc' = "crashed"
                /\ crash' = "TypeError"
                /\ catpc' = [catpc EXCEPT ![y] = "raised"]
                /\ UNCHANGED <<data, written, files>>
           ELSE /\ data' = [data EXCEPT ![y] = Concat(speeches.list)]
                /\ written' = [written EXCEPT ![y] =
                                  Append(@, to_csv24(Concat(speeches.list)))]
                /\ files' = to_csv(speeches_csv(y), y,
                                   to_csv24(Concat(speeches.list)))
                /\ catpc' = [catpc EXCEPT ![y] = "done"]
                /\ pc' = IF y = Len(main_links) THEN "done" ELSE pc
                /\ UNCHANGED crash
    /\ item' = [item EXCEPT ![y] = [n \in DOMAIN @ |-> Delivered(@[n])]]
    /\ UNCHANGED progress_bars
    /\ UNCHANGED <<prog, main_links, detail_links, errs, faults, index_kind>>

F24Next ==
    \/ F24Main
    \/ \E y \in Cats, r \in IndexResponses : F24FetchYear(y, r)
    \/ \E y \in Cats, i \in 1..MaxLinks, r \in DetailResponses(prog) :
            F24SpeechDone(y, i, r)
    \/ \E y \in Cats : F24Return(y)

Next == InvNext \/ F10Next \/ F24Next


Spec == Init /\ [][Next]_vars

\* ================================================================== claims
LastTable(c) == written[c][Len(written[c])]
Rows(c) == LastTable(c).rows
Srcs(rows) == { rows[j].src : j \in DOMAIN rows }
RunEnded == pc \in {"done", "crashed"}
\* The category's pipeline has run to its end: its handler returned, or (in
\* fed2024) gather had every result when main raised.
Drained(c) ==
    catpc[c] = "done" \/ (prog = "fed2024" /\ catpc[c] = "raised")
InFlight ==
    Cardinality({ ci \in Cats \X (1..MaxLinks) :
                    /\ ci[2] \in DOMAIN item[ci[1]]
                    /\ item[ci[1]][ci[2]].st = "inflight" })
ChunkOf(c, l) ==
    CHOOSE k \in 1..NumChunks(detail_links[c]) :
        l \in Range(Chunks(detail_links[c])[k])
IsPlaceholder(row) ==
    row.Title = "No Title Found" /\ row.Summary = "No Summary Found"

\* C1: when a category's table is flushed, every detail link dispatched for
\* it has contributed exactly one Result: the rows are of distinct links of
\* the category and, with the error lines fed2010 prints in place of a row,
\* there are as many Results as links.
C1_ResultsMatchDispatched ==
    \A c \in Cats :
        written[c] # <<>> =>
            /\ Cardinality(Srcs(Rows(c))) = Len(Rows(c))
            /\ Srcs(Rows(c)) \subseteq Range(detail_links[c])
            /\ Len(Rows(c)) + (IF prog = "fed2010" THEN errs[c] ELSE 0)
                    = Len(detail_links[c])

\* A table of several chunks is flushed although a fetch of the category
\* failed.
C1_Witness ==
    \E c \in Cats :
        /\ prog = "investopedia"
        /\ written[c] # <<>>
        /\ Len(detail_links[c]) > chunk_size
        /\ errs[c] > 0

\* C2: every category whose work has drained was flushed exactly once, and no
\* category is flushed twice.
C2_FlushExactlyOnce ==
    \A c \in Cats :
        /\ Len(written[c]) <= 1
        /\ Drained(c) => Len(written[c]) = 1

\* C3 as stated: the rows of a flushed table are in the order in which the
\* detail links were discovered, whatever the order the chunks completed in.
C3_RowsInDiscoveryOrder ==
    \A c \in Cats :
        written[c] # <<>> =>
            \A p, q \in DOMAIN Rows(c) :
                p < q => Rows(c)[p].src < Rows(c)[q].src

\* C3 amended: the rows of one chunk are contiguous and in discovery order,
\* and the chunks follow one another in the order they completed in; the
\* speech script, which has no chunks, writes its rows in discovery order.
C3_RowsInChunkCompletionOrder ==
    \A c \in Cats :
        written[c] # <<>> =>
            \A p, q \in DOMAIN Rows(c) :
                p < q =>
                    IF prog = "investopedia"
                    THEN ChunkOf(c, Rows(c)[p].src) = ChunkOf(c, Rows(c)[q].src)
                            => /\ Rows(c)[p].src < Rows(c)[q].src
                               /\ \A m \in p..q :
                                    ChunkOf(c, Rows(c)[m].src)
                                        = ChunkOf(c, Rows(c)[p].src)
                    ELSE Rows(c)[p].src < Rows(c)[q].src

\* The last chunk completed first: its rows head the flushed table, before
\* the rows of the first chunk.
C3_Witness ==
    \E c \in Cats :
        /\ prog = "investopedia"
        /\ written[c] # <<>>
        /\ Len(Rows(c)) > chunk_size
        /\ Rows(c)[1].src > chunk_size
        /\ Rows(c)[Len(Rows(c))].src = chunk_size

\* C4: a category whose discovery yielded no detail link has, once its
\* pipeline has run, a table of the header row alone, and no error was raised
\* for it.
C4_EmptyCategoryHeaderOnly ==
    \A c \in Cats :
        (Drained(c) /\ index_kind[c] # "" /\ detail_links[c] = <<>>) =>
            /\ catpc[c] = "done"
            /\ Len(written[c]) = 1
            /\ written[c][1].header # <<>>
            /\ written[c][1].rows = <<>>

\* C5 as stated: a work item whose fetch failed has had retryBudget + 1
\* attempts, 2 with the default budget of 1.
C5_RetryBudgetAttempts ==
    LET retryBudget == 1 IN
    \A c \in Cats : \A i \in DOMAIN item[c] :
        (item[c][i].st = "fetched" /\ item[c][i].resp.kind # "ok") =>
            item[c][i].tries = retryBudget + 1

\* C5 amended: a work item has had exactly one fetch attempt once it was
\* started, whatever the outcome of the fetch; it is never retried.
C5_SingleAttempt ==
    \A c \in Cats : \A i \in DOMAIN item[c] :
        item[c][i].tries = IF item[c][i].st = "queued" THEN 0 ELSE 1

\* The fetch of a work item has failed with a transport fault.
C5_Witness ==
    \E c \in Cats : \E i \in DOMAIN item[c] :
        /\ item[c][i].st = "fetched"
        /\ item[c][i].resp.kind = "exc"
        /\ item[c][i].tries = 1

\* C6: at most concurrencyLimit x chunkSize detail-page fetches are in flight
\* at once in the whole run, the limit being the worker count of a pool.
C6_InFlightBounded == InFlight <= max_workers * chunk_size

\* C7: when the run has ended, the failure of one work item has aborted
\* nothing else of its category: every item of the category has its terminal
\* outcome and the category's table is written.
C7_FailureDoesNotAbortSiblings ==
    RunEnded =>
        \A c \in Cats :
            (\E i \in DOMAIN item[c] : item[c][i].st = "raised") =>
                /\ \A i \in DOMAIN item[c] :
                        item[c][i].st \in {"done", "raised"}
                /\ written[c] # <<>>

\* C8 as stated: a flushed table has exactly one row per successfully
\* processed item; an item whose fetch failed (an error line is printed for
\* it) contributes no row.
C8_NoRowForFailedItem ==
    \A c \in Cats :
        written[c] # <<>> =>
            Len(Rows(c)) = Len(detail_links[c]) - errs[c]

\* C8 amended: in fed2010 a link whose fetch returns a non-2xx status
\* contributes no row; in investopedia a link whose fetch failed contributes
\* a placeholder row, so the table has one row per dispatched link.
C8_FailedItemRowPerScript ==
    \A c \in Cats :
        written[c] # <<>> =>
            IF prog = "investopedia"
            THEN /\ Len(Rows(c)) = Len(detail_links[c])
                 /\ Cardinality({ j \in DOMAIN Rows(c) :
                                    IsPlaceholder(Rows(c)[j]) }) >= errs[c]
            ELSE Len(Rows(c)) = Len(detail_links[c]) - errs[c]

\* A table is flushed for a category one of whose fetches failed.
C8_Witness ==
    \E c \in Cats :
        /\ written[c] # <<>>
        /\ errs[c] > 0
        /\ \E j \in DOMAIN Rows(c) :
              prog = "investopedia" /\ IsPlaceholder(Rows(c)[j])

\* C9: a fetch that got a non-2xx response or a transport fault has the
\* FetchError outcome (None), never a body; and no transport exception
\* leaves a fetch.
C9_FetchOkOrError ==
    /\ crash # "ConnectionError"
    /\ \A c \in Cats : \A i \in DOMAIN item[c] :
          (item[c][i].st = "fetched" /\ item[c][i].resp.kind # "ok") =>
              (IF prog = "fed2024" THEN fetch_page24(item[c][i].resp)
               ELSE fetch_page(item[c][i].resp)) = NoResp

\* C10: when the run has ended, a category whose index page could not be
\* fetched has stopped no other category: every other category of the run
\* has been through its whole pipeline.
C10_IndexFailureIsolated ==
    RunEnded =>
        \A c \in Cats :
            index_kind[c] \in {"status", "exc"} =>
                \A d \in 1..Len(main_links) :
                    d # c => catpc[d] = "done"

\* C11: when the discovery of the main links returns the empty sequence, the
\* run starts no category work, raises nothing and ends normally.
C11_EmptyDiscoveryIsZeroWork ==
    (prog = "investopedia" /\ pc # "start" /\ main_links = <<>>) =>
        /\ pc # "crashed"
        /\ crash = ""
        /\ \A c \in Cats : catpc[c] = "idle"

\* C12: a detail page that was fetched with a 2xx status and lacks one field
\* still gives a record: the field that is missing holds its sentinel, every
\* field that is there keeps its value, and nothing is raised for the item.
C12_MissingFieldSentinel ==
    /\ crash # "AttributeError"
    /\ \A c \in Cats : \A i \in DOMAIN item[c] :
          LET r == item[c][i].resp IN
          (item[c][i].st = "fetched" /\ r.kind = "ok") =>
              IF prog = "investopedia"
              THEN LET row == scrape_title_and_summary(fetch_page(r), i) IN
                   /\ row.Title = IF r.title THEN "title"
                                  ELSE "No Title Found"
                   /\ row.Summary = IF r.container THEN "summary"
                                    ELSE "No Summary Found"
              ELSE r.container =>
                   LET rec == fetch_and_parse_speech(fetch_page24(r), i) IN
                   /\ Len(rec) = 1
                   /\ rec[1].speaker = IF r.speaker THEN "speaker"
                                       ELSE "Speaker not found"
                   /\ rec[1].content = "content"

\* C13: no fetch is waited for without end: while the index page of a
\* category or the page of a work item is awaited, the run is one that still
\* receives the outcome of the fetch.
C13_EveryFetchEnds ==
    \A c \in Cats :
        (catpc[c] = "fetching"
            \/ \E i \in DOMAIN item[c] : item[c][i].st = "inflight")
        => pc = "run"

\* The category main cannot leave: the request it made is never answered.
Stalled(c) == pc = "hung" /\ CurrentYear(c)

\* C14: a category that is stalled or has failed stops no other category:
\* every other category of the run has been through its pipeline, or the run
\* is still going and can take it there.
C14_CategoriesIndependent ==
    \A c \in Cats :
        (Stalled(c) \/ catpc[c] = "raised") =>
            \A d \in 1..Len(main_links) :
                d # c => (catpc[d] = "done" \/ pc = "run")

\* C15: the count a progress bar shows is at every point the number of main
\* links its thread has finished, and its total once the run is done.
C15_ProgressAccurate ==
    \A t \in DOMAIN progress_bars :
        LET mine == { c \in 1..Len(main_links) : ThreadOf(c) + 1 = t } IN
        /\ progress_bars[t].n
              = Cardinality({ c \in mine : catpc[c] = "done" })
        /\ pc = "done" => progress_bars[t].n = Cardinality(mine)

\* C16: a category's table is flushed only after every work item dispatched
\* for it has its terminal Result, and nothing is recorded into the category
\* after the flush: its data stay those of the table and it stays complete.
C16_FlushAfterAllResults ==
    \A c \in Cats :
        written[c] # <<>> =>
            /\ catpc[c] = "done"
            /\ \A i \in DOMAIN item[c] : item[c][i].st = "done"
            /\ Len(item[c]) = Len(detail_links[c])
            /\ data[c] = Rows(c)

\* A category of several chunks is flushed while the run goes on.
C16_Witness ==
    \E c \in Cats :
        /\ pc = "run"
        /\ written[c] # <<>>
        /\ Len(detail_links[c]) > chunk_size
        /\ \E d \in Cats : catpc[d] = "pool"

\* The least m with m * k >= n.
CeilDiv(n, k) == CHOOSE m \in 0..n : m * k >= n /\ (m - 1) * k < n

\* C17: the chunks of a list of detail links are a contiguous, exact
\* partition of it: concatenated they give the list, there are
\* ceil(n / chunk_size) of them, every chunk but the last has chunk_size
\* links and the last has between 1 and chunk_size; no chunk is empty.
C17_ChunksPartition ==
    \A c \in Cats :
        LET links == detail_links[c]
            chunks == Chunks(links)
        IN  /\ Concat(chunks) = links
            /\ Len(chunks) = CeilDiv(Len(links), chunk_size)
            /\ \A k \in 1..(Len(chunks) - 1) : Len(chunks[k]) = chunk_size
            /\ chunks # <<>> =>
                  Len(chunks[Len(chunks)]) \in 1..chunk_size

\* The links of a category were cut into full chunks and a short last one,
\* and the last one is being fetched.
C17_Witness ==
    \E c \in Cats :
        /\ prog = "investopedia"
        /\ catpc[c] = "pool"
        /\ Len(detail_links[c]) > chunk_size
        /\ Len(detail_links[c]) % chunk_size # 0
        /\ item[c][Len(detail_links[c])].st = "inflight"

\* C18: data grows by whole chunks only: of every chunk it holds the rows of
\* all links or of none, it holds them only when every link of the chunk has
\* its outcome, and the rows of a chunk lie together in the chunk's order.
C18_WholeChunksInOrder ==
    prog = "investopedia" =>
        \A c \in Cats : \A k \in 1..NumChunks(detail_links[c]) :
            LET chunk == Chunks(detail_links[c])[k] IN
            \/ Range(chunk) \cap Srcs(data[c]) = {}
            \/ /\ \A l \in Range(chunk) : item[c][l].st = "done"
               /\ \E p \in DOMAIN data[c] :
                     \A j \in 1..Len(chunk) :
                         /\ p + j - 1 \in DOMAIN data[c]
                         /\ data[c][p + j - 1].src = chunk[j]

\* data holds the rows of one whole chunk while a link of another chunk of
\* the category is in flight.
C18_Witness ==
    \E c \in Cats :
        /\ prog = "investopedia"
        /\ Len(data[c]) = chunk_size
        /\ \E i \in DOMAIN item[c] : item[c][i].st = "inflight"

\* The file the table of category c goes to.
FileNameOf(c) ==
    IF prog = "investopedia" THEN extract_text(main_links[c])
    ELSE speeches_csv(c)

\* C19: an output file belongs to one category: the file a category has
\* written its table to holds that table, no other category has replaced it.
C19_OneTablePerCategory ==
    \A c \in Cats :
        written[c] # <<>> =>
            /\ files[FileNameOf(c)].by = c
            /\ files[FileNameOf(c)].table = LastTable(c)

\* C20: in fed2024, once gather has every result of a year, main writes the
\* year's table: one row per speech that was parsed, in link order, and it
\* raises nothing.
C20_YearTableWritten ==
    \A y \in Cats :
        (prog = "fed2024" /\ Drained(y)) =>
            /\ catpc[y] = "done"
            /\ crash = ""
            /\ Len(written[y]) = 1
            /\ Len(Rows(y)) = Len(detail_links[y]) - errs[y]
            /\ \A p, q \in DOMAIN Rows(y) :
                  p < q => Rows(y)[p].src < Rows(y)[q].src

====
